---- MODULE Spec2Model ----
(***************************************************************************)
(* Model of the Sensiron SGP30 driver (package sensironsgp30).             *)
(*                                                                         *)
(* Sensor.Run opens a port, starts a session of goroutines in an errgroup  *)
(* (a watcher that closes the port on cancellation, an initializer that    *)
(* writes the init frame and then starts handleCommands and                *)
(* requestAirQualityRepeatedly), joins the session, consults the           *)
(* recoverable-error handler and either returns or reconnects after        *)
(* reconnectTimeout.                                                       *)
(*                                                                         *)
(* Modelling conventions                                                   *)
(*  - One action per blocking or externally visible operation of a         *)
(*    goroutine; each goroutine's position is a pc variable.               *)
(*  - A port call (Write, Read, Close) is two steps, the call and the      *)
(*    return, so that two calls on the same port can overlap.              *)
(*  - Channels are unbuffered.  A goroutine arriving at a select takes one *)
(*    of the cases that are ready at that moment (any of them when several *)
(*    are) and parks otherwise ("...Blk").  A parked goroutine is resumed  *)
(*    by the first event that makes one of its cases ready: a partner      *)
(*    arriving on the channel, or the cancellation of its context, which   *)
(*    resumes every goroutine parked on that context in the same step.     *)
(*  - Steps take no time, timers of positive duration take time: a         *)
(*    select between ctx.Done() and time.After(d), d > 0, takes the        *)
(*    ctx.Done() case when the context is cancelled before the timer       *)
(*    fires.  With d <= 0 the timer is ready on arrival.                   *)
(*  - A Go panic in any goroutine ends the whole process (crashed).        *)
(*  - An error is the chain of messages errors.Wrap builds, outermost      *)
(*    first.                                                               *)
(*                                                                         *)
(* Spec, FairSpec and LiveSpec are the whole driver, under no, Run's and   *)
(* every goroutine's fair scheduling.  CodecSpec and FrameSpec run         *)
(* measureAirQuality's decoding and setHumidity's encoding on their own,   *)
(* from a state of the first session, over wider sets of words and         *)
(* humidities than a session of Spec uses.                                 *)
(***************************************************************************)
EXTENDS Integers, Sequences, FiniteSets, TLC

\* ---------------------------------------------------------------- bounds
\* Open calls made by Run (sessions).
MaxOpens == 2
\* Ticks of the periodic requester (measurement cycles), over all sessions.
MaxTicks == 2
\* Calls of HandleRelativeHumidity.
MaxHumidityCalls == 1

\* ------------------------------------------------------------- vocabulary
\* An error value is the chain of its messages, outermost first, as
\* errors.Wrap builds it; nil is the empty chain.
NoErr == <<>>
\* errors.Wrap(err, message): nil for a nil err.
Wrap(err, message) == IF err = NoErr THEN NoErr ELSE <<message>> \o err
\* What assert.ErrorContains looks for in err.Error().
Contains(err, message) == \E i \in 1..Len(err) : err[i] = message
\* The error a failing Open, Write or Read returns, and the one readWords
\* makes for a checksum that does not match.
PortError == <<"boom">>
CrcError == <<"failed to validate crc">>
OpenFailed == Wrap(PortError, "failed to open port")
InitializationFailed == Wrap(PortError, "failed to initialize sensor")
SetHumidityFailed == Wrap(PortError, "failed to set humidity")
MeasureRequestFailed == Wrap(PortError, "failed to measure air quality")
ReadFailed ==
    Wrap(Wrap(PortError, "failed to read air quality"),
         "failed to measure air quality")
ChecksumMismatch ==
    Wrap(Wrap(CrcError, "failed to read air quality"),
         "failed to measure air quality")
\* The error a failing Close returns; the watcher returns it as it is.
CloseFailed == <<"close error">>

TotalVolatileOrganicCompounds == "TVOC"
CarbonDioxideEquivalent == "CO2eq"

\* The recoverable-error handler: absent ("none", errorHandlerFunc == nil)
\* or supplied ("func"), an arbitrary predicate that may give either answer
\* at each consultation.  A handler that always returns true (false) is the
\* supplied handler in the behaviours where every answer is TRUE (FALSE).
Policies == {"none", "func"}

\* Reconnect delays: 0 stands for a delay <= 0, 1 for a delay > 0.
ReconnectTimeouts == {0, 1}

VARIABLES
    \* configuration (NewSensor and its options, the caller's context)
    errorHandlerFunc,   \* the policy, in Policies
    reconnectTimeout,   \* in ReconnectTimeouts
    \* contexts and channels
    ctxDone,            \* Run's context is cancelled
    callerDone,         \* the context given to HandleRelativeHumidity is cancelled
    groupCancelled,     \* the errgroup cancelled the session's context
    commandsClosed,     \* close(s.commands) has run
    gasesClosed,        \* close(s.gases) has run
    \* goroutines
    runPc, runErr, sessErr,
    watchPc, initPc, muxPc, reqPc, hPc, consPc,
    groupErr,           \* errgroup's first error
    muxCmd,             \* the command handleCommands is processing
    muxBuf,             \* the reply buffer filled by port.Read
    hArg,               \* the value of the pending HandleRelativeHumidity call
    crashed,            \* a goroutine panicked
    \* history
    openCalls,          \* calls of portFactory.Open
    portId,             \* ports opened so far; the current port's id
    portLog,            \* the calls made on the current port, in call order
    closeDone,          \* Close has returned on the current port
    errLog,             \* non-nil errors returned by the session's goroutines
    policyLog,          \* consultations of the handler after the session
    answers,            \* the answers the handler has given so far
    published,          \* readings received from the gases channel
    ticks,              \* ticks of the requester so far
    delays,             \* reconnect delays waited out
    hCalls              \* calls of HandleRelativeHumidity so far

cfgVars == <<errorHandlerFunc, reconnectTimeout>>
ctxVars == <<ctxDone, callerDone>>
chanVars == <<commandsClosed, gasesClosed>>
runVars == <<runPc, runErr, sessErr>>
sessVars == <<watchPc, initPc, muxPc, reqPc, groupErr, groupCancelled, muxCmd, muxBuf>>
histVars == <<openCalls, portId, portLog, closeDone, errLog, policyLog, answers, published, ticks, delays, hCalls>>
vars == <<cfgVars, ctxVars, chanVars, runVars, sessVars, hPc, hArg, consPc, crashed, histVars>>

\* ------------------------------------------------------------ wire codec
RECURSIVE Xor(_, _)
\* Bitwise exclusive or of two naturals.
Xor(a, b) ==
    IF a = 0 THEN b
    ELSE IF b = 0 THEN a
    ELSE (((a % 2) + (b % 2)) % 2) + (2 * Xor(a \div 2, b \div 2))

crcPoly == 49
crcInit == 255

RECURSIVE crcShift(_, _)
\* n rounds of the MSB-first shift register with polynomial 0x31.
crcShift(crc, n) ==
    IF n = 0 THEN crc
    ELSE crcShift(IF crc >= 128 THEN Xor((crc * 2) % 256, crcPoly)
                                ELSE (crc * 2) % 256,
                  n - 1)

\* crc8.MakeTable: the register after one byte, for each value of the
\* register xor the byte.
checksumTable == [c \in 0..255 |-> crcShift(c, 8)]

RECURSIVE crcUpdate(_, _)
crcUpdate(crc, bytes) ==
    IF bytes = <<>> THEN crc
    ELSE crcUpdate(checksumTable[Xor(crc, Head(bytes))], Tail(bytes))

\* crc8.Checksum(data, checksumTable): no reflection, xor-out 0x00.
Checksum(bytes) == crcUpdate(crcInit, bytes)

\* readWords(port, 2) on a filled buffer: the words, or the crc error.
readWords(buf) ==
    LET word(i) == buf[i] * 256 + buf[i + 1]
        good(i) == Checksum(<<buf[i], buf[i + 1]>>) = buf[i + 2]
    IN  IF ~good(1) \/ ~good(4)
        THEN [err |-> CrcError, data |-> <<>>]
        ELSE [err |-> NoErr, data |-> <<word(1), word(4)>>]

\* measureAirQuality's decoding: data[0] is CO2eq (ppm), data[1] TVOC (ppb).
\* A concentration is the product of a count and a unit of the units package.
airQualitySwapped(data) ==
    [CO2eq |-> [count |-> data[2], unit |-> "PartPerMillion"],
     TVOC |-> [count |-> data[1], unit |-> "PartPerBillion"]]
airQuality(data) ==
    [CO2eq |-> [count |-> data[1], unit |-> "PartPerMillion"],
     TVOC |-> [count |-> data[2], unit |-> "PartPerBillion"]]

\* The buffers the sensor may return: a well-formed reply (CO2eq 0x0102,
\* TVOC 0x0304) and the same data bytes with zeroed checksum bytes.
GoodReply == <<1, 2, Checksum(<<1, 2>>), 3, 4, Checksum(<<3, 4>>)>>
BadReply == <<1, 2, 0, 3, 4, 0>>
Replies == {GoodReply, BadReply}

\* The frames written to the port.
initFrame == <<32, 3>>
measureFrame == <<32, 8>>

\* setHumidity's frame for a fixed-point value that fits 16 bits.
setHumidityFrame(fixedPointValue) ==
    LET humidityData == <<fixedPointValue \div 256, fixedPointValue % 256>>
    IN  <<32, 97, humidityData[1], humidityData[2], Checksum(humidityData)>>

\* uint16(f) of a non-negative float64 f with integer part v: v when it
\* fits; otherwise the result is implementation-dependent (the low 16 bits
\* where the conversion goes through a wider integer, the largest value
\* where it saturates).
Uint16Of(v) == IF v < 65536 THEN {v} ELSE {v % 65536, 65535}

\* Absolute humidities are counted in half steps of the fixed-point format,
\* 1/512 g/m3, so that absoluteHumidity x 256 has a fraction to truncate.
\* setHumidity's fixedPointValue for such a value.
fixedPointValues(absoluteHumidity) == Uint16Of(absoluteHumidity \div 2)

\* The frames setHumidity may write for a value.
humidityFrames(absoluteHumidity) ==
    {setHumidityFrame(fp) : fp \in fixedPointValues(absoluteHumidity)}

\* The value submitted in a session: 11.5 g/m3 and a half step.
Humidities == {5889}

\* ------------------------------------------------------- shared helpers
\* handleCommands holds no command (its locals c, command, readings are out
\* of scope between two iterations and after it returned).
NoCmd == [kind |-> "none", arg |-> 0]

\* innerCtx of errgroup.WithContext(ctx): done when ctx is, when a goroutine
\* of the group returned an error, or when Wait returned.
InnerDone == ctxDone \/ groupCancelled

\* The context given to HandleRelativeHumidity is the caller's own; a caller
\* that passes Run's context is the behaviours where both are cancelled in
\* consecutive steps.
HDone == callerDone

\* Cancellation of innerCtx resumes the goroutines parked in a select that
\* has a ctx.Done() case; in handleCommands and in the requester that case
\* returns nil.
MuxParked == {"recvBlk", "tvocBlk", "co2Blk"}
WokenMux(pc) == IF pc \in MuxParked THEN "done" ELSE pc
WokenReqStaysParked(pc) == pc
WokenReq(pc) == IF pc = "sendBlk" THEN "done" ELSE pc

\* errgroup keeps the first non-nil error (errOnce).
LastError(cur, err) == IF err # NoErr THEN err ELSE cur
FirstError(cur, err) == IF cur = NoErr THEN err ELSE cur

\* A goroutine of the group returns err: errgroup records the first error
\* and cancels innerCtx on it.
GroupDone(err) ==
    /\ groupErr' = FirstError(groupErr, err)
    /\ groupCancelled' = (groupCancelled \/ err # NoErr)
    /\ errLog' = IF err # NoErr THEN Append(errLog, err) ELSE errLog

\* A call on the current port is logged when it is made.
PortCall(ev) == portLog' = Append(portLog, ev)

WriteEv(frame) == [op |-> "Write", frame |-> frame]
ReadEv == [op |-> "Read", frame |-> <<>>]
CloseEv == [op |-> "Close", frame |-> <<>>]

\* ------------------------------------------------------------------ Init
Init ==
    /\ errorHandlerFunc \in Policies
    /\ reconnectTimeout \in ReconnectTimeouts
    /\ ctxDone = FALSE /\ callerDone = FALSE /\ groupCancelled = FALSE
    /\ commandsClosed = FALSE /\ gasesClosed = FALSE
    /\ runPc = "open" /\ runErr = NoErr /\ sessErr = NoErr
    /\ watchPc = "off" /\ initPc = "off" /\ muxPc = "off" /\ reqPc = "off"
    /\ hPc = "idle" /\ hArg = 0 /\ consPc = "away"
    /\ groupErr = NoErr
    /\ muxCmd = NoCmd
    /\ muxBuf = <<>>
    /\ crashed = FALSE
    /\ openCalls = 0 /\ portId = 0
    /\ portLog = <<>>
    /\ closeDone = FALSE
    /\ errLog = <<>> /\ policyLog = <<>> /\ answers = {} /\ published = <<>>
    /\ ticks = 0 /\ delays = 0 /\ hCalls = 0

\* ------------------------------------------------------------ Sensor.Run
\* Run returns e; the deferred close(s.commands) and close(s.gases) run.
\* A sender parked on the command channel panics (send on closed channel);
\* a receiver parked on the gases channel is resumed.
RunReturnLeaveOpen(e) ==
    /\ runPc' = "done" /\ runErr' = e
    /\ commandsClosed' = TRUE /\ gasesClosed' = FALSE
    /\ hPc' = IF hPc = "sendBlk" THEN "panic" ELSE hPc
    /\ crashed' = (hPc = "sendBlk")
    /\ consPc' = consPc
    /\ hArg' = hArg
RunReturn(e) ==
    /\ runPc' = "done" /\ runErr' = e
    /\ commandsClosed' = TRUE /\ gasesClosed' = TRUE
    /\ hPc' = IF hPc = "sendBlk" THEN "panic" ELSE hPc
    /\ crashed' = (hPc = "sendBlk")
    /\ consPc' = IF consPc = "recvBlk" THEN "away" ELSE consPc
    /\ hArg' = hArg

\* s.portFactory.Open() fails: Run returns the wrapped error.
RunOpenFailsRecoverable ==
    /\ ~crashed
    /\ runPc = "open" /\ openCalls < MaxOpens
    /\ openCalls' = openCalls + 1
    /\ sessErr' = OpenFailed
    /\ runPc' = "policy"
    /\ UNCHANGED <<cfgVars, ctxVars, chanVars, runErr, sessVars>>
    /\ UNCHANGED <<hPc, hArg, consPc, crashed>>
    /\ UNCHANGED <<portId, portLog, closeDone, errLog, policyLog, answers, published, ticks, delays, hCalls>>
RunOpenFails ==
    /\ ~crashed
    /\ runPc = "open" /\ openCalls < MaxOpens
    /\ openCalls' = openCalls + 1
    /\ RunReturn(OpenFailed)
    /\ UNCHANGED <<cfgVars, ctxVars, sessErr, sessVars>>
    /\ UNCHANGED <<portId, portLog, closeDone, errLog, policyLog, answers, published, ticks, delays, hCalls>>

\* s.portFactory.Open() succeeds (port, err := ... sets err to nil): the
\* group is created and the watcher and the initializer are started.  The
\* history of the previous port ends here.
RunOpen ==
    /\ ~crashed
    /\ runPc = "open" /\ openCalls < MaxOpens
    /\ openCalls' = openCalls + 1
    /\ portId' = portId + 1
    /\ groupErr' = NoErr /\ groupCancelled' = FALSE /\ errLog' = <<>>
    /\ watchPc' = "wait" /\ initPc' = "write" /\ muxPc' = "off" /\ reqPc' = "off"
    /\ runPc' = "wait"
    /\ sessErr' = NoErr
    /\ portLog' = <<>> /\ closeDone' = FALSE /\ policyLog' = <<>>
    /\ UNCHANGED <<cfgVars, ctxVars, chanVars, runErr, muxCmd, muxBuf>>
    /\ UNCHANGED <<hPc, hArg, consPc, crashed>>
    /\ UNCHANGED <<answers, published, ticks, delays, hCalls>>

\* Every goroutine of the group has returned.
GroupIdleButWatcher ==
    /\ initPc = "done"
    /\ muxPc \in {"off", "done"} /\ reqPc \in {"off", "done"}
GroupIdle ==
    /\ watchPc = "done" /\ initPc = "done"
    /\ muxPc \in {"off", "done"} /\ reqPc \in {"off", "done"}

\* err = group.Wait()
RunWait ==
    /\ ~crashed
    /\ runPc = "wait" /\ GroupIdle
    /\ sessErr' = groupErr
    /\ groupCancelled' = TRUE
    /\ runPc' = "policy"
    /\ UNCHANGED <<cfgVars, ctxVars, chanVars, runErr>>
    /\ UNCHANGED <<watchPc, initPc, muxPc, reqPc, groupErr, muxCmd, muxBuf>>
    /\ UNCHANGED <<hPc, hArg, consPc, crashed, histVars>>

\* s.errorHandlerFunc(err) returns true: Run returns err.
RunPolicyTerminate ==
    /\ ~crashed
    /\ runPc = "policy" /\ errorHandlerFunc # "none"
    /\ policyLog' = Append(policyLog, [err |-> sessErr, answer |-> TRUE])
    /\ answers' = answers \cup {TRUE}
    /\ RunReturn(sessErr)
    /\ UNCHANGED <<cfgVars, ctxVars, sessErr, sessVars>>
    /\ UNCHANGED <<openCalls, portId, portLog, closeDone, errLog, published, ticks, delays, hCalls>>

\* s.errorHandlerFunc(err) returns false: Run goes on to the reconnect select.
RunPolicyContinueNoDelay ==
    /\ ~crashed
    /\ runPc = "policy" /\ errorHandlerFunc # "none"
    /\ policyLog' = Append(policyLog, [err |-> sessErr, answer |-> FALSE])
    /\ answers' = answers \cup {FALSE}
    /\ runPc' = "open"
    /\ UNCHANGED <<cfgVars, ctxVars, chanVars, runErr, sessErr, sessVars>>
    /\ UNCHANGED <<hPc, hArg, consPc, crashed>>
    /\ UNCHANGED <<openCalls, portId, portLog, closeDone, errLog, published, ticks, delays, hCalls>>
RunPolicyContinue ==
    /\ ~crashed
    /\ runPc = "policy" /\ errorHandlerFunc # "none"
    /\ policyLog' = Append(policyLog, [err |-> sessErr, answer |-> FALSE])
    /\ answers' = answers \cup {FALSE}
    /\ runPc' = "select"
    /\ UNCHANGED <<cfgVars, ctxVars, chanVars, runErr, sessErr, sessVars>>
    /\ UNCHANGED <<hPc, hArg, consPc, crashed>>
    /\ UNCHANGED <<openCalls, portId, portLog, closeDone, errLog, published, ticks, delays, hCalls>>

\* No handler was supplied: Run goes on to the reconnect select.
RunNoPolicyReturnsErr ==
    /\ ~crashed
    /\ runPc = "policy" /\ errorHandlerFunc = "none"
    /\ RunReturn(sessErr)
    /\ UNCHANGED <<cfgVars, ctxVars, sessErr, sessVars, histVars>>
RunNoPolicy ==
    /\ ~crashed
    /\ runPc = "policy" /\ errorHandlerFunc = "none"
    /\ runPc' = "select"
    /\ UNCHANGED <<cfgVars, ctxVars, chanVars, runErr, sessErr, sessVars>>
    /\ UNCHANGED <<hPc, hArg, consPc, crashed, histVars>>

\* select: case <-ctx.Done(): return nil
RunSelectReturnsErr ==
    /\ ~crashed
    /\ runPc = "select" /\ ctxDone
    /\ RunReturn(sessErr)
    /\ UNCHANGED <<cfgVars, ctxVars, sessErr, sessVars, histVars>>
RunSelectDone ==
    /\ ~crashed
    /\ runPc = "select" /\ ctxDone
    /\ RunReturn(NoErr)
    /\ UNCHANGED <<cfgVars, ctxVars, sessErr, sessVars, histVars>>

\* select: case <-time.After(s.reconnectTimeout): next iteration
RunSelectTimeout ==
    /\ ~crashed
    /\ runPc = "select"
    /\ reconnectTimeout = 0 \/ ~ctxDone
    /\ runPc' = "open"
    /\ delays' = delays + 1
    /\ UNCHANGED <<cfgVars, ctxVars, chanVars, runErr, sessErr, sessVars>>
    /\ UNCHANGED <<hPc, hArg, consPc, crashed>>
    /\ UNCHANGED <<openCalls, portId, portLog, closeDone, errLog, policyLog, answers, published, ticks, hCalls>>

\* -------------------------------------------------- the caller of Run
\* The caller cancels Run's context (or its deadline passes).
CancelOuter ==
    /\ ~crashed
    /\ ~ctxDone
    /\ ctxDone' = TRUE
    /\ muxPc' = WokenMux(muxPc)
    /\ muxCmd' = IF muxPc \in MuxParked THEN NoCmd ELSE muxCmd
    /\ muxBuf' = IF muxPc \in MuxParked THEN <<>> ELSE muxBuf
    /\ reqPc' = WokenReq(reqPc)
    /\ UNCHANGED <<cfgVars, callerDone, chanVars, runVars>>
    /\ UNCHANGED <<watchPc, initPc, groupErr, groupCancelled>>
    /\ UNCHANGED <<hPc, hArg, consPc, crashed, histVars>>

\* ------------------------------------------------------------- watcher
\* <-innerCtx.Done() returned; port.Close() is called.
WatcherCloseCall ==
    /\ ~crashed
    /\ watchPc = "wait" /\ InnerDone
    /\ watchPc' = "closing"
    /\ PortCall(CloseEv)
    /\ UNCHANGED <<cfgVars, ctxVars, chanVars, runVars>>
    /\ UNCHANGED <<initPc, muxPc, reqPc, groupErr, groupCancelled, muxCmd, muxBuf>>
    /\ UNCHANGED <<hPc, hArg, consPc, crashed>>
    /\ UNCHANGED <<openCalls, portId, closeDone, errLog, policyLog, answers, published, ticks, delays, hCalls>>

\* port.Close() returns; the watcher returns its result.
WatcherCloseReturn ==
    /\ ~crashed
    /\ watchPc = "closing"
    /\ \E err \in {NoErr, CloseFailed} : GroupDone(err)
    /\ closeDone' = TRUE
    /\ watchPc' = "done"
    /\ UNCHANGED <<cfgVars, ctxVars, chanVars, runVars>>
    /\ UNCHANGED <<initPc, muxPc, reqPc, muxCmd, muxBuf>>
    /\ UNCHANGED <<hPc, hArg, consPc, crashed>>
    /\ UNCHANGED <<openCalls, portId, portLog, policyLog, answers, published, ticks, delays, hCalls>>

\* ----------------------------------------- initializer, initAirQuality
\* port.Write([]byte{0x20, 0x03}) is called.
InitWriteCallStartsSession ==
    /\ ~crashed
    /\ initPc = "write"
    /\ initPc' = "writing"
    /\ muxPc' = "recv" /\ reqPc' = "tick"
    /\ PortCall(WriteEv(initFrame))
    /\ UNCHANGED <<cfgVars, ctxVars, chanVars, runVars>>
    /\ UNCHANGED <<watchPc, groupErr, groupCancelled, muxCmd, muxBuf>>
    /\ UNCHANGED <<hPc, hArg, consPc, crashed>>
    /\ UNCHANGED <<openCalls, portId, closeDone, errLog, policyLog, answers, published, ticks, delays, hCalls>>
InitWriteCall ==
    /\ ~crashed
    /\ initPc = "write"
    /\ initPc' = "writing"
    /\ PortCall(WriteEv(initFrame))
    /\ UNCHANGED <<cfgVars, ctxVars, chanVars, runVars>>
    /\ UNCHANGED <<watchPc, muxPc, reqPc, groupErr, groupCancelled, muxCmd, muxBuf>>
    /\ UNCHANGED <<hPc, hArg, consPc, crashed>>
    /\ UNCHANGED <<openCalls, portId, closeDone, errLog, policyLog, answers, published, ticks, delays, hCalls>>

\* The write fails: the initializer returns "failed to initialize sensor".
InitWriteFailsStartsSession ==
    /\ ~crashed
    /\ initPc = "writing"
    /\ GroupDone(InitializationFailed)
    /\ initPc' = "done"
    /\ muxPc' = "recv" /\ reqPc' = "tick"
    /\ UNCHANGED <<cfgVars, ctxVars, chanVars, runVars>>
    /\ UNCHANGED <<watchPc, muxCmd, muxBuf>>
    /\ UNCHANGED <<hPc, hArg, consPc, crashed>>
    /\ UNCHANGED <<openCalls, portId, portLog, closeDone, policyLog, answers, published, ticks, delays, hCalls>>
InitWriteFails ==
    /\ ~crashed
    /\ initPc = "writing"
    /\ GroupDone(InitializationFailed)
    /\ initPc' = "done"
    /\ UNCHANGED <<cfgVars, ctxVars, chanVars, runVars>>
    /\ UNCHANGED <<watchPc, muxPc, reqPc, muxCmd, muxBuf>>
    /\ UNCHANGED <<hPc, hArg, consPc, crashed>>
    /\ UNCHANGED <<openCalls, portId, portLog, closeDone, policyLog, answers, published, ticks, delays, hCalls>>

\* The write succeeds: initAirQuality waits setValueTimeout or ctx.Done().
InitWriteReturn ==
    /\ ~crashed
    /\ initPc = "writing"
    /\ initPc' = "settle"
    /\ UNCHANGED <<cfgVars, ctxVars, chanVars, runVars>>
    /\ UNCHANGED <<watchPc, muxPc, reqPc, groupErr, groupCancelled, muxCmd, muxBuf>>
    /\ UNCHANGED <<hPc, hArg, consPc, crashed, histVars>>

\* Either case of initAirQuality's select returns nil: the initializer
\* starts handleCommands and requestAirQualityRepeatedly and returns nil.
InitStartSession ==
    /\ ~crashed
    /\ initPc = "settle"
    /\ initPc' = "done"
    /\ muxPc' = "recv" /\ reqPc' = "tick"
    /\ UNCHANGED <<cfgVars, ctxVars, chanVars, runVars>>
    /\ UNCHANGED <<watchPc, groupErr, groupCancelled, muxCmd, muxBuf>>
    /\ UNCHANGED <<hPc, hArg, consPc, crashed, histVars>>

\* -------------------------------------------- requestAirQualityRepeatedly
\* outer select: case <-ctx.Done(): return nil
ReqCancelled ==
    /\ ~crashed
    /\ reqPc = "tick" /\ InnerDone
    /\ reqPc' = "done"
    /\ UNCHANGED <<cfgVars, ctxVars, chanVars, runVars>>
    /\ UNCHANGED <<watchPc, initPc, muxPc, groupErr, groupCancelled, muxCmd, muxBuf>>
    /\ UNCHANGED <<hPc, hArg, consPc, crashed, histVars>>

\* outer select: case <-time.After(measureAirQualityInterval)
ReqTick ==
    /\ ~crashed
    /\ reqPc = "tick" /\ ~InnerDone /\ ticks < MaxTicks
    /\ ticks' = ticks + 1
    /\ reqPc' = "send"
    /\ UNCHANGED <<cfgVars, ctxVars, chanVars, runVars>>
    /\ UNCHANGED <<watchPc, initPc, muxPc, groupErr, groupCancelled, muxCmd, muxBuf>>
    /\ UNCHANGED <<hPc, hArg, consPc, crashed>>
    /\ UNCHANGED <<openCalls, portId, portLog, closeDone, errLog, policyLog, answers, published, delays, hCalls>>

\* inner select: case <-ctx.Done(): return nil
ReqSendCancelled ==
    /\ ~crashed
    /\ reqPc = "send" /\ InnerDone
    /\ reqPc' = "done"
    /\ UNCHANGED <<cfgVars, ctxVars, chanVars, runVars>>
    /\ UNCHANGED <<watchPc, initPc, muxPc, groupErr, groupCancelled, muxCmd, muxBuf>>
    /\ UNCHANGED <<hPc, hArg, consPc, crashed, histVars>>

\* inner select: case commands <- request, handleCommands parked receiving
ReqSend ==
    /\ ~crashed
    /\ reqPc = "send" /\ muxPc = "recvBlk"
    /\ muxCmd' = [kind |-> "measure", arg |-> ticks]
    /\ muxPc' = "mWrite"
    /\ reqPc' = "tick"
    /\ UNCHANGED <<cfgVars, ctxVars, chanVars, runVars>>
    /\ UNCHANGED <<watchPc, initPc, groupErr, groupCancelled, muxBuf>>
    /\ UNCHANGED <<hPc, hArg, consPc, crashed, histVars>>

\* inner select: no case is ready, the requester parks
ReqSendPark ==
    /\ ~crashed
    /\ reqPc = "send" /\ ~InnerDone /\ muxPc # "recvBlk"
    /\ reqPc' = "sendBlk"
    /\ UNCHANGED <<cfgVars, ctxVars, chanVars, runVars>>
    /\ UNCHANGED <<watchPc, initPc, muxPc, groupErr, groupCancelled, muxCmd, muxBuf>>
    /\ UNCHANGED <<hPc, hArg, consPc, crashed, histVars>>

\* --------------------------------------------------------- handleCommands
\* handleCommands returns err # nil: errgroup cancels innerCtx, which
\* resumes the requester if it is parked.
MuxFails(err) ==
    /\ GroupDone(err)
    /\ muxPc' = "done"
    /\ muxCmd' = NoCmd /\ muxBuf' = <<>>
    /\ reqPc' = WokenReq(reqPc)

\* select: case <-ctx.Done(): return nil
MuxRecvCancelled ==
    /\ ~crashed
    /\ muxPc = "recv" /\ InnerDone
    /\ muxPc' = "done"
    /\ UNCHANGED <<cfgVars, ctxVars, chanVars, runVars>>
    /\ UNCHANGED <<watchPc, initPc, reqPc, groupErr, groupCancelled, muxCmd, muxBuf>>
    /\ UNCHANGED <<hPc, hArg, consPc, crashed, histVars>>

\* select: case c := <-commands, the requester parked sending
MuxRecvRequest ==
    /\ ~crashed
    /\ muxPc = "recv" /\ reqPc = "sendBlk"
    /\ muxCmd' = [kind |-> "measure", arg |-> ticks]
    /\ muxPc' = "mWrite"
    /\ reqPc' = "tick"
    /\ UNCHANGED <<cfgVars, ctxVars, chanVars, runVars>>
    /\ UNCHANGED <<watchPc, initPc, groupErr, groupCancelled, muxBuf>>
    /\ UNCHANGED <<hPc, hArg, consPc, crashed, histVars>>

\* select: case c := <-commands, HandleRelativeHumidity parked sending
MuxRecvHumidity ==
    /\ ~crashed
    /\ muxPc = "recv" /\ hPc = "sendBlk"
    /\ muxCmd' = [kind |-> "sethum", arg |-> hArg]
    /\ muxPc' = "hWrite"
    /\ hPc' = "idle" /\ hArg' = 0
    /\ UNCHANGED <<cfgVars, ctxVars, chanVars, runVars>>
    /\ UNCHANGED <<watchPc, initPc, reqPc, groupErr, groupCancelled, muxBuf>>
    /\ UNCHANGED <<consPc, crashed, histVars>>

\* select: no case is ready, handleCommands parks
MuxRecvPark ==
    /\ ~crashed
    /\ muxPc = "recv" /\ ~InnerDone /\ reqPc # "sendBlk" /\ hPc # "sendBlk"
    /\ muxPc' = "recvBlk"
    /\ UNCHANGED <<cfgVars, ctxVars, chanVars, runVars>>
    /\ UNCHANGED <<watchPc, initPc, reqPc, groupErr, groupCancelled, muxCmd, muxBuf>>
    /\ UNCHANGED <<hPc, hArg, consPc, crashed, histVars>>

\* setHumidity: port.Write of the set-humidity frame is called.
MuxHumWriteCall ==
    /\ ~crashed
    /\ muxPc = "hWrite"
    /\ muxPc' = "hWriting"
    /\ \E frame \in humidityFrames(muxCmd.arg) : PortCall(WriteEv(frame))
    /\ UNCHANGED <<cfgVars, ctxVars, chanVars, runVars>>
    /\ UNCHANGED <<watchPc, initPc, reqPc, groupErr, groupCancelled, muxCmd, muxBuf>>
    /\ UNCHANGED <<hPc, hArg, consPc, crashed>>
    /\ UNCHANGED <<openCalls, portId, closeDone, errLog, policyLog, answers, published, ticks, delays, hCalls>>

\* setHumidity: the write fails, "failed to set humidity".
MuxHumWriteFailsUnwrapped ==
    /\ ~crashed
    /\ muxPc = "hWriting"
    /\ MuxFails(PortError)
    /\ UNCHANGED <<cfgVars, ctxVars, chanVars, runVars>>
    /\ UNCHANGED <<watchPc, initPc>>
    /\ UNCHANGED <<hPc, hArg, consPc, crashed>>
    /\ UNCHANGED <<openCalls, portId, portLog, closeDone, policyLog, answers, published, ticks, delays, hCalls>>
MuxHumWriteFails ==
    /\ ~crashed
    /\ muxPc = "hWriting"
    /\ MuxFails(SetHumidityFailed)
    /\ UNCHANGED <<cfgVars, ctxVars, chanVars, runVars>>
    /\ UNCHANGED <<watchPc, initPc>>
    /\ UNCHANGED <<hPc, hArg, consPc, crashed>>
    /\ UNCHANGED <<openCalls, portId, portLog, closeDone, policyLog, answers, published, ticks, delays, hCalls>>

\* setHumidity: the write succeeds; wait setValueTimeout or ctx.Done().
MuxHumWriteReturn ==
    /\ ~crashed
    /\ muxPc = "hWriting"
    /\ muxPc' = "hSettle"
    /\ UNCHANGED <<cfgVars, ctxVars, chanVars, runVars>>
    /\ UNCHANGED <<watchPc, initPc, reqPc, groupErr, groupCancelled, muxCmd, muxBuf>>
    /\ UNCHANGED <<hPc, hArg, consPc, crashed, histVars>>

\* setHumidity: either case of the select returns nil; next iteration.
MuxHumSettledReads ==
    /\ ~crashed
    /\ muxPc = "hSettle"
    /\ muxPc' = "mRead"
    /\ UNCHANGED <<cfgVars, ctxVars, chanVars, runVars>>
    /\ UNCHANGED <<watchPc, initPc, reqPc, groupErr, groupCancelled, muxCmd, muxBuf>>
    /\ UNCHANGED <<hPc, hArg, consPc, crashed, histVars>>
MuxHumSettled ==
    /\ ~crashed
    /\ muxPc = "hSettle"
    /\ muxPc' = "recv"
    /\ muxCmd' = NoCmd
    /\ UNCHANGED <<cfgVars, ctxVars, chanVars, runVars>>
    /\ UNCHANGED <<watchPc, initPc, reqPc, groupErr, groupCancelled, muxBuf>>
    /\ UNCHANGED <<hPc, hArg, consPc, crashed, histVars>>

\* measureAirQuality: port.Write([]byte{0x20, 0x08}) is called.
MuxMeasureWriteCall ==
    /\ ~crashed
    /\ muxPc = "mWrite"
    /\ muxPc' = "mWriting"
    /\ PortCall(WriteEv(measureFrame))
    /\ UNCHANGED <<cfgVars, ctxVars, chanVars, runVars>>
    /\ UNCHANGED <<watchPc, initPc, reqPc, groupErr, groupCancelled, muxCmd, muxBuf>>
    /\ UNCHANGED <<hPc, hArg, consPc, crashed>>
    /\ UNCHANGED <<openCalls, portId, closeDone, errLog, policyLog, answers, published, ticks, delays, hCalls>>

\* measureAirQuality: the write fails, "failed to measure air quality".
MuxMeasureWriteFailsAsRead ==
    /\ ~crashed
    /\ muxPc = "mWriting"
    /\ MuxFails(ReadFailed)
    /\ UNCHANGED <<cfgVars, ctxVars, chanVars, runVars>>
    /\ UNCHANGED <<watchPc, initPc>>
    /\ UNCHANGED <<hPc, hArg, consPc, crashed>>
    /\ UNCHANGED <<openCalls, portId, portLog, closeDone, policyLog, answers, published, ticks, delays, hCalls>>
MuxMeasureWriteFails ==
    /\ ~crashed
    /\ muxPc = "mWriting"
    /\ MuxFails(MeasureRequestFailed)
    /\ UNCHANGED <<cfgVars, ctxVars, chanVars, runVars>>
    /\ UNCHANGED <<watchPc, initPc>>
    /\ UNCHANGED <<hPc, hArg, consPc, crashed>>
    /\ UNCHANGED <<openCalls, portId, portLog, closeDone, policyLog, answers, published, ticks, delays, hCalls>>

\* measureAirQuality: the write succeeds; wait readValueTimeout or ctx.Done().
MuxMeasureWriteReturn ==
    /\ ~crashed
    /\ muxPc = "mWriting"
    /\ muxPc' = "mSettle"
    /\ UNCHANGED <<cfgVars, ctxVars, chanVars, runVars>>
    /\ UNCHANGED <<watchPc, initPc, reqPc, groupErr, groupCancelled, muxCmd, muxBuf>>
    /\ UNCHANGED <<hPc, hArg, consPc, crashed, histVars>>

\* measureAirQuality: case <-ctx.Done(): return nil, nil.  handleCommands
\* sees err == nil and evaluates readings.TVOC on the nil *airQuality: a
\* nil-pointer dereference, which panics.
MuxMeasureCancelled ==
    /\ ~crashed
    /\ muxPc = "mSettle" /\ InnerDone
    /\ muxPc' = "panic"
    /\ crashed' = TRUE
    /\ UNCHANGED <<cfgVars, ctxVars, chanVars, runVars>>
    /\ UNCHANGED <<watchPc, initPc, reqPc, groupErr, groupCancelled, muxCmd, muxBuf>>
    /\ UNCHANGED <<hPc, hArg, consPc, histVars>>

\* measureAirQuality: case <-time.After(readValueTimeout)
MuxMeasureSettledSkipsRead ==
    /\ ~crashed
    /\ muxPc = "mSettle" /\ ~InnerDone
    /\ muxPc' = "recv"
    /\ muxCmd' = NoCmd
    /\ UNCHANGED <<cfgVars, ctxVars, chanVars, runVars>>
    /\ UNCHANGED <<watchPc, initPc, reqPc, groupErr, groupCancelled, muxBuf>>
    /\ UNCHANGED <<hPc, hArg, consPc, crashed, histVars>>
MuxMeasureSettled ==
    /\ ~crashed
    /\ muxPc = "mSettle" /\ ~InnerDone
    /\ muxPc' = "mRead"
    /\ UNCHANGED <<cfgVars, ctxVars, chanVars, runVars>>
    /\ UNCHANGED <<watchPc, initPc, reqPc, groupErr, groupCancelled, muxCmd, muxBuf>>
    /\ UNCHANGED <<hPc, hArg, consPc, crashed, histVars>>

\* readWords: port.Read(buf) is called.
MuxReadCall ==
    /\ ~crashed
    /\ muxPc = "mRead"
    /\ muxPc' = "mReading"
    /\ PortCall(ReadEv)
    /\ UNCHANGED <<cfgVars, ctxVars, chanVars, runVars>>
    /\ UNCHANGED <<watchPc, initPc, reqPc, groupErr, groupCancelled, muxCmd, muxBuf>>
    /\ UNCHANGED <<hPc, hArg, consPc, crashed>>
    /\ UNCHANGED <<openCalls, portId, closeDone, errLog, policyLog, answers, published, ticks, delays, hCalls>>

\* readWords: the read fails, "failed to read air quality".
MuxReadFails ==
    /\ ~crashed
    /\ muxPc = "mReading"
    /\ MuxFails(ReadFailed)
    /\ UNCHANGED <<cfgVars, ctxVars, chanVars, runVars>>
    /\ UNCHANGED <<watchPc, initPc>>
    /\ UNCHANGED <<hPc, hArg, consPc, crashed>>
    /\ UNCHANGED <<openCalls, portId, portLog, closeDone, policyLog, answers, published, ticks, delays, hCalls>>

\* readWords: the read fills buf, a checksum does not match.
MuxReadBadCrc ==
    /\ ~crashed
    /\ muxPc = "mReading"
    /\ \E buf \in Replies :
        /\ readWords(buf).err # NoErr
        /\ MuxFails(Wrap(Wrap(readWords(buf).err, "failed to read air quality"),
                         "failed to measure air quality"))
    /\ UNCHANGED <<cfgVars, ctxVars, chanVars, runVars>>
    /\ UNCHANGED <<watchPc, initPc>>
    /\ UNCHANGED <<hPc, hArg, consPc, crashed>>
    /\ UNCHANGED <<openCalls, portId, portLog, closeDone, policyLog, answers, published, ticks, delays, hCalls>>

\* readWords: the read fills buf, the checksums match.
MuxReadReturn ==
    /\ ~crashed
    /\ muxPc = "mReading"
    /\ \E buf \in Replies :
        /\ readWords(buf).err = NoErr
        /\ muxBuf' = buf
    /\ muxPc' = "tvoc"
    /\ UNCHANGED <<cfgVars, ctxVars, chanVars, runVars>>
    /\ UNCHANGED <<watchPc, initPc, reqPc, groupErr, groupCancelled, muxCmd>>
    /\ UNCHANGED <<hPc, hArg, consPc, crashed, histVars>>

\* The two readings of the buffer being processed.
tvoc ==
    [gas |-> TotalVolatileOrganicCompounds,
     amount |-> airQuality(readWords(muxBuf).data).TVOC,
     cycle |-> muxCmd.arg]
co2eq ==
    [gas |-> CarbonDioxideEquivalent,
     amount |-> airQuality(readWords(muxBuf).data).CO2eq,
     cycle |-> muxCmd.arg]

\* first send select: case <-ctx.Done(): return nil
MuxTvocCancelledFallsThrough ==
    /\ ~crashed
    /\ muxPc = "tvoc" /\ InnerDone
    /\ muxPc' = "co2"
    /\ UNCHANGED <<cfgVars, ctxVars, chanVars, runVars>>
    /\ UNCHANGED <<watchPc, initPc, reqPc, groupErr, groupCancelled, muxCmd, muxBuf>>
    /\ UNCHANGED <<hPc, hArg, consPc, crashed, histVars>>
MuxTvocCancelled ==
    /\ ~crashed
    /\ muxPc = "tvoc" /\ InnerDone
    /\ muxPc' = "done"
    /\ muxCmd' = NoCmd /\ muxBuf' = <<>>
    /\ UNCHANGED <<cfgVars, ctxVars, chanVars, runVars>>
    /\ UNCHANGED <<watchPc, initPc, reqPc, groupErr, groupCancelled>>
    /\ UNCHANGED <<hPc, hArg, consPc, crashed, histVars>>

\* first send select: case gases <- tvoc, the consumer parked receiving
MuxTvocSendOnly ==
    /\ ~crashed
    /\ muxPc = "tvoc" /\ consPc = "recvBlk"
    /\ published' = Append(published, tvoc)
    /\ consPc' = "away"
    /\ muxPc' = "recv"
    /\ muxCmd' = NoCmd /\ muxBuf' = <<>>
    /\ UNCHANGED <<cfgVars, ctxVars, chanVars, runVars>>
    /\ UNCHANGED <<watchPc, initPc, reqPc, groupErr, groupCancelled>>
    /\ UNCHANGED <<hPc, hArg, crashed>>
    /\ UNCHANGED <<openCalls, portId, portLog, closeDone, errLog, policyLog, answers, ticks, delays, hCalls>>
MuxTvocSend ==
    /\ ~crashed
    /\ muxPc = "tvoc" /\ consPc = "recvBlk"
    /\ published' = Append(published, tvoc)
    /\ consPc' = "away"
    /\ muxPc' = "co2"
    /\ UNCHANGED <<cfgVars, ctxVars, chanVars, runVars>>
    /\ UNCHANGED <<watchPc, initPc, reqPc, groupErr, groupCancelled, muxCmd, muxBuf>>
    /\ UNCHANGED <<hPc, hArg, crashed>>
    /\ UNCHANGED <<openCalls, portId, portLog, closeDone, errLog, policyLog, answers, ticks, delays, hCalls>>

\* first send select: no case is ready, handleCommands parks
MuxTvocPark ==
    /\ ~crashed
    /\ muxPc = "tvoc" /\ ~InnerDone /\ consPc # "recvBlk"
    /\ muxPc' = "tvocBlk"
    /\ UNCHANGED <<cfgVars, ctxVars, chanVars, runVars>>
    /\ UNCHANGED <<watchPc, initPc, reqPc, groupErr, groupCancelled, muxCmd, muxBuf>>
    /\ UNCHANGED <<hPc, hArg, consPc, crashed, histVars>>

\* second send select: case <-ctx.Done(): return nil
MuxCo2Cancelled ==
    /\ ~crashed
    /\ muxPc = "co2" /\ InnerDone
    /\ muxPc' = "done"
    /\ muxCmd' = NoCmd /\ muxBuf' = <<>>
    /\ UNCHANGED <<cfgVars, ctxVars, chanVars, runVars>>
    /\ UNCHANGED <<watchPc, initPc, reqPc, groupErr, groupCancelled>>
    /\ UNCHANGED <<hPc, hArg, consPc, crashed, histVars>>

\* second send select: case gases <- co2eq, the consumer parked receiving
MuxCo2Send ==
    /\ ~crashed
    /\ muxPc = "co2" /\ consPc = "recvBlk"
    /\ published' = Append(published, co2eq)
    /\ consPc' = "away"
    /\ muxPc' = "recv"
    /\ muxCmd' = NoCmd /\ muxBuf' = <<>>
    /\ UNCHANGED <<cfgVars, ctxVars, chanVars, runVars>>
    /\ UNCHANGED <<watchPc, initPc, reqPc, groupErr, groupCancelled>>
    /\ UNCHANGED <<hPc, hArg, crashed>>
    /\ UNCHANGED <<openCalls, portId, portLog, closeDone, errLog, policyLog, answers, ticks, delays, hCalls>>

\* second send select: no case is ready, handleCommands parks
MuxCo2Park ==
    /\ ~crashed
    /\ muxPc = "co2" /\ ~InnerDone /\ consPc # "recvBlk"
    /\ muxPc' = "co2Blk"
    /\ UNCHANGED <<cfgVars, ctxVars, chanVars, runVars>>
    /\ UNCHANGED <<watchPc, initPc, reqPc, groupErr, groupCancelled, muxCmd, muxBuf>>
    /\ UNCHANGED <<hPc, hArg, consPc, crashed, histVars>>

\* ------------------------------------- the consumer of Concentrations()
\* The consumer receives from the gases channel: it takes the reading of a
\* parked handleCommands, or parks.
ConsumerReceive ==
    /\ ~crashed
    /\ consPc = "away" /\ ~gasesClosed
    /\ CASE muxPc = "tvocBlk" ->
              /\ published' = Append(published, tvoc)
              /\ muxPc' = "co2"
              /\ consPc' = "away"
              /\ UNCHANGED <<muxCmd, muxBuf>>
         [] muxPc = "co2Blk" ->
              /\ published' = Append(published, co2eq)
              /\ muxPc' = "recv"
              /\ consPc' = "away"
              /\ muxCmd' = NoCmd /\ muxBuf' = <<>>
         [] OTHER ->
              /\ consPc' = "recvBlk"
              /\ UNCHANGED <<published, muxPc, muxCmd, muxBuf>>
    /\ UNCHANGED <<cfgVars, ctxVars, chanVars, runVars>>
    /\ UNCHANGED <<watchPc, initPc, reqPc, groupErr, groupCancelled>>
    /\ UNCHANGED <<hPc, hArg, crashed>>
    /\ UNCHANGED <<openCalls, portId, portLog, closeDone, errLog, policyLog, answers, ticks, delays, hCalls>>

\* The consumer stops waiting (its own timeout).
ConsumerLeave ==
    /\ ~crashed
    /\ consPc = "recvBlk"
    /\ consPc' = "away"
    /\ UNCHANGED <<cfgVars, ctxVars, chanVars, runVars, sessVars>>
    /\ UNCHANGED <<hPc, hArg, crashed, histVars>>

\* ------------------------------------------ Sensor.HandleRelativeHumidity
\* select: case <-ctx.Done(); return nil
HCallCancelled ==
    /\ ~crashed
    /\ hPc = "idle" /\ hCalls < MaxHumidityCalls /\ HDone
    /\ hCalls' = hCalls + 1
    /\ UNCHANGED <<cfgVars, ctxVars, chanVars, runVars, sessVars>>
    /\ UNCHANGED <<hPc, hArg, consPc, crashed>>
    /\ UNCHANGED <<openCalls, portId, portLog, closeDone, errLog, policyLog, answers, published, ticks, delays>>

\* select: case s.commands <- relativeHumidity, handleCommands parked
\* receiving; return nil
HCallSend ==
    /\ ~crashed
    /\ hPc = "idle" /\ hCalls < MaxHumidityCalls /\ muxPc = "recvBlk"
    /\ hCalls' = hCalls + 1
    /\ \E h \in Humidities : muxCmd' = [kind |-> "sethum", arg |-> h]
    /\ muxPc' = "hWrite"
    /\ UNCHANGED <<cfgVars, ctxVars, chanVars, runVars>>
    /\ UNCHANGED <<watchPc, initPc, reqPc, groupErr, groupCancelled, muxBuf>>
    /\ UNCHANGED <<hPc, hArg, consPc, crashed>>
    /\ UNCHANGED <<openCalls, portId, portLog, closeDone, errLog, policyLog, answers, published, ticks, delays>>

\* select: case s.commands <- relativeHumidity on the closed channel: panic
HCallPanic ==
    /\ ~crashed
    /\ hPc = "idle" /\ hCalls < MaxHumidityCalls /\ commandsClosed
    /\ hCalls' = hCalls + 1
    /\ hPc' = "panic"
    /\ crashed' = TRUE
    /\ UNCHANGED <<cfgVars, ctxVars, chanVars, runVars, sessVars>>
    /\ UNCHANGED <<hArg, consPc>>
    /\ UNCHANGED <<openCalls, portId, portLog, closeDone, errLog, policyLog, answers, published, ticks, delays>>

\* select: no case is ready, the caller parks
HCallPark ==
    /\ ~crashed
    /\ hPc = "idle" /\ hCalls < MaxHumidityCalls
    /\ ~HDone /\ ~commandsClosed /\ muxPc # "recvBlk"
    /\ hCalls' = hCalls + 1
    /\ \E h \in Humidities : hArg' = h
    /\ hPc' = "sendBlk"
    /\ UNCHANGED <<cfgVars, ctxVars, chanVars, runVars, sessVars>>
    /\ UNCHANGED <<consPc, crashed>>
    /\ UNCHANGED <<openCalls, portId, portLog, closeDone, errLog, policyLog, answers, published, ticks, delays>>

\* The caller of HandleRelativeHumidity cancels its own context; a parked
\* call returns nil.
CancelCaller ==
    /\ ~crashed
    /\ ~callerDone
    /\ callerDone' = TRUE
    /\ hPc' = IF hPc = "sendBlk" THEN "idle" ELSE hPc
    /\ hArg' = 0
    /\ UNCHANGED <<cfgVars, ctxDone, chanVars, runVars, sessVars>>
    /\ UNCHANGED <<consPc, crashed, histVars>>

\* ------------------------------------------------------- specification
RunStep ==
    \/ RunOpenFails \/ RunOpen \/ RunWait
    \/ RunPolicyTerminate \/ RunPolicyContinue \/ RunNoPolicy
    \/ RunSelectDone \/ RunSelectTimeout

WatcherStep == WatcherCloseCall \/ WatcherCloseReturn

InitStep == InitWriteCall \/ InitWriteFails \/ InitWriteReturn \/ InitStartSession

ReqStep == ReqCancelled \/ ReqTick \/ ReqSendCancelled \/ ReqSend \/ ReqSendPark

MuxStep ==
    \/ MuxRecvCancelled \/ MuxRecvRequest \/ MuxRecvHumidity \/ MuxRecvPark
    \/ MuxHumWriteCall \/ MuxHumWriteFails \/ MuxHumWriteReturn \/ MuxHumSettled
    \/ MuxMeasureWriteCall \/ MuxMeasureWriteFails \/ MuxMeasureWriteReturn
    \/ MuxMeasureCancelled \/ MuxMeasureSettled
    \/ MuxReadCall \/ MuxReadFails \/ MuxReadBadCrc \/ MuxReadReturn
    \/ MuxTvocCancelled \/ MuxTvocSend \/ MuxTvocPark
    \/ MuxCo2Cancelled \/ MuxCo2Send \/ MuxCo2Park

EnvStep ==
    \/ CancelOuter \/ CancelCaller
    \/ ConsumerReceive \/ ConsumerLeave
    \/ HCallCancelled \/ HCallSend \/ HCallPanic \/ HCallPark

\* A panic ends the process: every action requires ~crashed.
Next == RunStep \/ WatcherStep \/ InitStep \/ ReqStep \/ MuxStep \/ EnvStep

Spec == Init /\ [][Next]_vars

\* The goroutine scheduler runs Run whenever it can take a step, and the
\* reconnect timer fires.
FairSpec == Spec /\ WF_vars(RunStep)

\* The scheduler runs every goroutine of the driver whenever it can take a
\* step (a port call that was made returns, a timer that was started
\* fires), and the consumer of Concentrations() keeps receiving.
LiveSpec ==
    /\ Spec
    /\ WF_vars(RunStep) /\ WF_vars(WatcherStep) /\ WF_vars(InitStep)
    /\ WF_vars(ReqStep) /\ WF_vars(MuxStep)
    /\ WF_vars(ConsumerReceive)

\* ------------------------------------------- the reply codec on its own
\* A reply as the sensor sends it: two big-endian words, each followed by
\* the CRC-8 of its two bytes.
Reply(c, t) ==
    <<c \div 256, c % 256, Checksum(<<c \div 256, c % 256>>),
      t \div 256, t % 256, Checksum(<<t \div 256, t % 256>>)>>

\* 16-bit words at the edges of the two bytes, and the CO2eq word of the
\* measurement test.
WordSamples == {0, 1, 255, 256, 258, 772, 32767, 32768, 60000, 65280, 65535}

\* readWords and what handleCommands does with its result, for a buffer
\* that port.Read filled with buf.
MuxReadFilled(buf) ==
    /\ ~crashed
    /\ muxPc = "mReading"
    /\ IF readWords(buf).err # NoErr
       THEN /\ MuxFails(Wrap(Wrap(readWords(buf).err, "failed to read air quality"),
                             "failed to measure air quality"))
       ELSE /\ muxBuf' = buf
            /\ muxPc' = "tvoc"
            /\ UNCHANGED <<reqPc, groupErr, groupCancelled, muxCmd, errLog>>
    /\ UNCHANGED <<cfgVars, ctxVars, chanVars, runVars>>
    /\ UNCHANGED <<watchPc, initPc>>
    /\ UNCHANGED <<hPc, hArg, consPc, crashed>>
    /\ UNCHANGED <<openCalls, portId, portLog, closeDone, policyLog, answers, published, ticks, delays, hCalls>>

\* The sensor answers the read with a well-formed reply.
MuxReadWellFormed == \E c, t \in WordSamples : MuxReadFilled(Reply(c, t))

\* The first session at the moment handleCommands has called port.Read for
\* the first RequestMeasurement.
CodecInit ==
    /\ errorHandlerFunc \in Policies
    /\ reconnectTimeout \in ReconnectTimeouts
    /\ ctxDone = FALSE /\ callerDone = FALSE /\ groupCancelled = FALSE
    /\ commandsClosed = FALSE /\ gasesClosed = FALSE
    /\ runPc = "wait" /\ runErr = NoErr /\ sessErr = NoErr
    /\ watchPc = "wait" /\ initPc = "done" /\ muxPc = "mReading" /\ reqPc = "tick"
    /\ hPc = "idle" /\ hArg = 0 /\ consPc = "away"
    /\ groupErr = NoErr
    /\ muxCmd = [kind |-> "measure", arg |-> 1]
    /\ muxBuf = <<>>
    /\ crashed = FALSE
    /\ openCalls = 1 /\ portId = 1
    /\ portLog = <<WriteEv(initFrame), WriteEv(measureFrame), ReadEv>>
    /\ closeDone = FALSE
    /\ errLog = <<>> /\ policyLog = <<>> /\ answers = {} /\ published = <<>>
    /\ ticks = 1 /\ delays = 0 /\ hCalls = 0

\* From the read to the two sends, with the consumer of the gases channel.
CodecNext ==
    \/ MuxReadWellFormed
    \/ MuxTvocSend \/ MuxTvocPark \/ MuxCo2Send \/ MuxCo2Park
    \/ ConsumerReceive \/ ConsumerLeave

CodecSpec == CodecInit /\ [][CodecNext]_vars

\* ------------------------------------- the set-humidity frame on its own
\* Absolute humidities, in 1/512 g/m3: none, the smallest steps, the value
\* of the test with and without a fraction to truncate, values around one
\* byte, the largest values that fit 16 bits, and values that do not (256
\* g/m3 and more; saturated air at 100 C holds about 590 g/m3).
HumiditySamples ==
    {0, 1, 2, 3, 511, 512, 5888, 5889, 131070, 131071, 131072, 131073, 302080}

\* The first session at the moment handleCommands has taken a SetHumidity
\* command.
FrameInit ==
    /\ errorHandlerFunc \in Policies
    /\ reconnectTimeout \in ReconnectTimeouts
    /\ ctxDone = FALSE /\ callerDone = FALSE /\ groupCancelled = FALSE
    /\ commandsClosed = FALSE /\ gasesClosed = FALSE
    /\ runPc = "wait" /\ runErr = NoErr /\ sessErr = NoErr
    /\ watchPc = "wait" /\ initPc = "done" /\ muxPc = "hWrite" /\ reqPc = "tick"
    /\ hPc = "idle" /\ hArg = 0 /\ consPc = "away"
    /\ groupErr = NoErr
    /\ \E h \in HumiditySamples : muxCmd = [kind |-> "sethum", arg |-> h]
    /\ muxBuf = <<>>
    /\ crashed = FALSE
    /\ openCalls = 1 /\ portId = 1
    /\ portLog = <<WriteEv(initFrame)>>
    /\ closeDone = FALSE
    /\ errLog = <<>> /\ policyLog = <<>> /\ answers = {} /\ published = <<>>
    /\ ticks = 0 /\ delays = 0 /\ hCalls = 1

\* setHumidity, to the next iteration of handleCommands.
FrameNext ==
    \/ MuxHumWriteCall \/ MuxHumWriteFails \/ MuxHumWriteReturn \/ MuxHumSettled
    \/ MuxRecvPark

FrameSpec == FrameInit /\ [][FrameNext]_vars

\* ------------------------------------------------------------ properties
\* Calls of Close on the current port.
CloseCalls == Cardinality({i \in 1..Len(portLog) : portLog[i].op = "Close"})

\* A call of Open returned no port.
OpenHasFailed == openCalls > portId

\* No goroutine of a session is running.
SessionIdle ==
    /\ watchPc \in {"off", "done"} /\ initPc \in {"off", "done"}
    /\ muxPc \in {"off", "done"} /\ reqPc \in {"off", "done"}

\* The first non-nil error returned by a goroutine of the session, nil if
\* none failed.
FirstReturned == IF errLog = <<>> THEN NoErr ELSE errLog[1]

\* The readings published for cycle c.
ReadingsOf(c) == SelectSeq(published, LAMBDA r : r.cycle = c)

\* handleCommands is done with the RequestMeasurement of cycle c.
Processed(c) == c <= ticks /\ ~(muxCmd.kind = "measure" /\ muxCmd.arg = c)
                /\ ~(reqPc \in {"send", "sendBlk"} /\ c = ticks)

\* C1: when Open fails, in the first or in a later iteration, Run has
\* returned OpenFailed at once: the handler was not consulted for it, no
\* reconnect delay was waited for it, no goroutine of a session runs, the
\* previous port is closed, and from then on no Open, no port call, no
\* consultation and no delay happens.
C1_OpenFailureIsFatal ==
    /\ [](OpenHasFailed =>
            /\ runPc = "done" /\ runErr = OpenFailed
            /\ delays = openCalls - 1
            /\ \A i \in 1..Len(policyLog) :
                  policyLog[i].err # OpenFailed /\ ~policyLog[i].answer
            /\ SessionIdle
            /\ (portId > 0 => closeDone))
    /\ [][OpenHasFailed' =>
            /\ openCalls' <= openCalls + 1
            /\ (OpenHasFailed => openCalls' = openCalls)
            /\ UNCHANGED <<portLog, policyLog, answers, delays>>]_vars

\* Open failed in a later iteration, after a session.
C1_Witness == OpenHasFailed /\ portId = 1 /\ openCalls = 2 /\ runPc = "done"

\* C2: with a handler that only ever answered true and Run's context not
\* cancelled, when the write of the init frame failed Run has returned
\* InitializationFailed after exactly one Open and exactly one, completed,
\* Close, and the only frame written is the init frame (no read either).
C2_InitFailureEndsRun ==
    (/\ runPc = "done" /\ errorHandlerFunc = "func" /\ answers \subseteq {TRUE}
     /\ ~ctxDone
     /\ \E i \in 1..Len(errLog) : errLog[i] = InitializationFailed)
    => (/\ runErr = InitializationFailed
        /\ openCalls = 1
        /\ CloseCalls = 1 /\ closeDone
        /\ \A i \in 1..Len(portLog) :
              portLog[i] \in {WriteEv(initFrame), CloseEv})

\* The init write failed while a humidity command was waiting to be taken.
C2_Witness ==
    /\ runPc = "done" /\ errorHandlerFunc = "func" /\ answers = {TRUE}
    /\ ~ctxDone /\ errLog = <<InitializationFailed>>
    /\ runErr = InitializationFailed /\ hCalls = 1

\* C3: Run reaches the next Open only from the reconnect select, by waiting
\* out the reconnect delay, with the failed session's goroutines finished
\* and its port closed by exactly one completed Close; and with a handler
\* that answers false, a session that ended with an error is followed by
\* the next call of Open unless Run's context is cancelled (at the bound
\* on Open calls: by Run arriving at the call).
C3_ReconnectAfterFailure ==
    /\ [][(runPc # "open" /\ runPc' = "open") =>
            /\ runPc = "select"
            /\ delays' = delays + 1
            /\ SessionIdle /\ closeDone /\ CloseCalls = 1]_vars
    /\ \A n \in 1..MaxOpens :
          (runPc = "policy" /\ sessErr # NoErr /\ errorHandlerFunc = "func"
           /\ openCalls = n)
             ~> \/ ctxDone \/ TRUE \in answers
                \/ openCalls > n
                \/ (n = MaxOpens /\ runPc = "open" /\ delays = n)

\* A second port was opened after a failed session, the handler having
\* answered false, with Run's context not cancelled.
C3_Witness ==
    /\ portId = 2 /\ delays = 1 /\ answers = {FALSE} /\ ~ctxDone

\* C4: Run, in the reconnect select with a positive delay and its context
\* cancelled, leaves the select only by returning nil, with the gases
\* channel closed and no further Open.
C4_CancelWhileIdle ==
    [][(runPc = "select" /\ ctxDone /\ reconnectTimeout > 0 /\ runPc' # "select") =>
          /\ runPc' = "done" /\ runErr' = NoErr
          /\ gasesClosed'
          /\ openCalls' = openCalls]_vars

\* Run returned nil from the reconnect select after a failed session.
C4_Witness ==
    /\ runPc = "done" /\ runErr = NoErr /\ sessErr # NoErr
    /\ ctxDone /\ reconnectTimeout > 0 /\ openCalls = 1

\* C5: once Run's context is cancelled, Run never takes the reconnect
\* branch of the select (it waits out no reconnect delay on the way to a
\* further Open), whatever the handler and the reconnect delay.
C5_NoReconnectAfterCancel == [][ctxDone => delays' = delays]_vars

\* C6: the gases channel is closed exactly when Run has returned; when it
\* is closed no goroutine of a session is running, and no reading is
\* published after it is closed.
C6_GasesClosedOnExit ==
    /\ [](gasesClosed <=> runPc = "done")
    /\ [](gasesClosed => SessionIdle)
    /\ [][gasesClosed => published' = published]_vars

\* Run returned by the handler's decision after readings were published.
C6_Witness ==
    /\ gasesClosed /\ published # <<>> /\ TRUE \in answers

\* C7: every CO2eq reading published is immediately preceded by the TVOC
\* reading of the same cycle.
C7_TvocThenCo2 ==
    \A i \in 1..Len(published) :
        published[i].gas = CarbonDioxideEquivalent =>
            /\ i > 1
            /\ published[i - 1].gas = TotalVolatileOrganicCompounds
            /\ published[i - 1].cycle = published[i].cycle

\* Two cycles were published.
C7_Witness ==
    /\ Len(published) = 4
    /\ published[4].gas = CarbonDioxideEquivalent
    /\ published[1].cycle # published[4].cycle

\* C8 as stated: a processed RequestMeasurement has zero or two readings
\* published, never exactly one.
C8_ZeroOrTwo ==
    \A c \in 1..MaxTicks : Processed(c) => Len(ReadingsOf(c)) \in {0, 2}

\* C8 as amended: a processed RequestMeasurement has zero or two readings
\* published, or, when Run's context was cancelled, the TVOC reading alone.
C8_ZeroOrTwoUnlessCancelled ==
    \A c \in 1..MaxTicks :
        Processed(c) =>
            \/ Len(ReadingsOf(c)) \in {0, 2}
            \/ /\ ctxDone
               /\ Len(ReadingsOf(c)) = 1
               /\ ReadingsOf(c)[1].gas = TotalVolatileOrganicCompounds

\* A processed command with the TVOC reading alone, after a complete cycle.
C8_Witness ==
    /\ ticks = 2 /\ Processed(1) /\ Processed(2)
    /\ Len(ReadingsOf(1)) = 2 /\ Len(ReadingsOf(2)) = 1

\* C9: Close is called at most once on a port, and whenever Run is outside
\* a session (about to call Open again, deciding, waiting, or returned) the
\* port it opened has been closed by exactly one completed Close: at most
\* one port is open at any time.
C9_OnePortAtATime ==
    /\ CloseCalls <= 1
    /\ (closeDone => CloseCalls = 1)
    /\ (portId > 0 /\ runPc \in {"open", "policy", "select", "done"}) =>
          (closeDone /\ CloseCalls = 1 /\ SessionIdle)

\* Run is about to open a second port after a session ended by an error of
\* handleCommands.
C9_Witness ==
    /\ runPc = "open" /\ portId = 1 /\ ~ctxDone
    /\ sessErr \in {MeasureRequestFailed, ReadFailed, ChecksumMismatch, SetHumidityFailed}

\* C10: a supplied handler is consulted exactly once per completed session
\* (never with no handler, never during the session), after every goroutine
\* of the session has returned and the port is closed, with the first
\* non-nil error returned in the session (nil if none), never with
\* OpenFailed; when it answers true Run has returned exactly that error.
C10_PolicyOncePerSession ==
    /\ Len(policyLog) =
          IF errorHandlerFunc = "func" /\ portId > 0
             /\ runPc \in {"select", "open", "done"}
          THEN 1 ELSE 0
    /\ \A i \in 1..Len(policyLog) :
          /\ SessionIdle /\ closeDone
          /\ policyLog[i].err = FirstReturned
          /\ policyLog[i].err # OpenFailed
          /\ policyLog[i].answer => (runPc = "done" /\ runErr = policyLog[i].err)

\* The handler was given the first of two errors and answered true.
C10_Witness ==
    /\ Len(policyLog) = 1 /\ policyLog[1].answer
    /\ Len(errLog) = 2 /\ errLog[1] # errLog[2]
    /\ runErr = errLog[1]

\* C11: with no handler supplied nothing is consulted, Run leaves the
\* policy point only to the reconnect select, the only non-nil error Run
\* returns is OpenFailed, and a session that ended with an error is followed
\* by the reconnect delay and the next call of Open unless Run's context is
\* cancelled (at the bound on Open calls: by Run arriving at the call).
C11_NoPolicyAlwaysReconnects ==
    /\ [](errorHandlerFunc = "none" =>
            /\ policyLog = <<>> /\ answers = {}
            /\ (runPc = "done" => runErr \in {NoErr, OpenFailed}))
    /\ [][(errorHandlerFunc = "none" /\ runPc = "policy") =>
            runPc' \in {"policy", "select"}]_vars
    /\ \A n \in 1..MaxOpens :
          (errorHandlerFunc = "none" /\ runPc = "policy" /\ sessErr # NoErr
           /\ openCalls = n)
             ~> \/ ctxDone
                \/ openCalls > n
                \/ (n = MaxOpens /\ runPc = "open" /\ delays = n)

\* With no handler, a second port was opened after a session that failed,
\* Run's context not being cancelled.
C11_Witness ==
    /\ errorHandlerFunc = "none" /\ portId = 2 /\ delays = 1 /\ ~ctxDone

\* The Write and Read calls made on the current port (by initAirQuality,
\* setHumidity and measureAirQuality), in call order.
DataCalls == SelectSeq(portLog, LAMBDA e : e.op # "Close")

\* The last Write or Read call made on the current port.
LastDataCall == DataCalls[Len(DataCalls)]

\* The errors measureAirQuality can make handleCommands return.
MeasureErrors == {MeasureRequestFailed, ReadFailed, ChecksumMismatch}

\* The error of the session that handleCommands returned, if any.
MuxErrors == {errLog[i] : i \in 1..Len(errLog)} \ {InitializationFailed, CloseFailed}

\* Run is past group.Wait of the current port's session.
Joined == portId > 0 /\ runPc \in {"policy", "select", "open", "done"}

\* C12 as stated: a failed measurement (write, read or checksum) ends the
\* session with its error, whatever else happened in the session: Wait
\* returns it, and Run returns it when the handler answers true.
C12_MeasureFailureEndsSession ==
    \A e \in MuxErrors \cap MeasureErrors :
        /\ groupErr = e
        /\ (Joined => sessErr = e)
        /\ (runPc = "done" /\ TRUE \in answers /\ ~OpenHasFailed => runErr = e)

\* C12 as amended: a failed measure-request write is the last call on the
\* port (no read follows it) and is not reported as a read failure, a read
\* or checksum failure is reported only for a read that was made, the step
\* that fails publishes nothing, for a command with no reading; and a
\* failed measurement ends the session with its error unless the watcher's
\* Close failed before it (after a cancellation of Run's context), in which
\* case the session ends with the close error.
C12_MeasureFailureUnlessCloseFailedFirst ==
    /\ [](\A e \in MuxErrors \cap MeasureErrors :
            /\ DataCalls # <<>>
            /\ Contains(e, "failed to measure air quality")
            /\ (e = MeasureRequestFailed =>
                  /\ LastDataCall = WriteEv(measureFrame)
                  /\ ~Contains(e, "failed to read air quality"))
            /\ (Contains(e, "failed to read air quality") =>
                  /\ LastDataCall = ReadEv
                  /\ Len(DataCalls) > 1
                  /\ DataCalls[Len(DataCalls) - 1] = WriteEv(measureFrame))
            /\ (Contains(e, "failed to validate crc") <=> e = ChecksumMismatch))
    /\ [][(muxPc \in {"mWriting", "mReading"} /\ muxPc' = "done") =>
            /\ Len(errLog') = Len(errLog) + 1
            /\ errLog'[Len(errLog')] \in
                  (IF muxPc = "mWriting" THEN {MeasureRequestFailed}
                   ELSE {ReadFailed, ChecksumMismatch})
            /\ ReadingsOf(muxCmd.arg) = <<>>
            /\ published' = published]_vars
    /\ [](\A e \in MuxErrors \cap MeasureErrors :
            LET first == IF errLog[1] = CloseFailed /\ ctxDone
                         THEN CloseFailed ELSE e
            IN  /\ groupErr = first
                /\ (Joined => sessErr = first)
                /\ (runPc = "done" /\ TRUE \in answers /\ ~OpenHasFailed =>
                      runErr = first))

\* Run returned the checksum error of the second cycle, the first cycle
\* having been published.
C12_Witness ==
    /\ runPc = "done" /\ runErr = ChecksumMismatch /\ TRUE \in answers
    /\ Len(published) = 2 /\ ticks = 2 /\ ~ctxDone

\* C13 as stated: a failed set-humidity write ends the session with
\* SetHumidityFailed, whatever else happened in the session: Wait returns
\* it, and Run returns it when the handler answers true.
C13_HumidityFailureEndsSession ==
    SetHumidityFailed \in MuxErrors =>
        /\ groupErr = SetHumidityFailed
        /\ (Joined => sessErr = SetHumidityFailed)
        /\ (runPc = "done" /\ TRUE \in answers /\ ~OpenHasFailed =>
              runErr = SetHumidityFailed)

\* C13 as amended: a failed set-humidity write makes handleCommands return
\* "failed to set humidity" wrapping the port's error, the set-humidity
\* write is the last call on the port (no read follows it), the port is
\* closed when the session is joined, and the session ends with that error
\* unless the watcher's Close failed before it (after a cancellation of
\* Run's context), in which case the session ends with the close error.
C13_HumidityFailureUnlessCloseFailedFirst ==
    /\ [][(muxPc = "hWriting" /\ muxPc' = "done") =>
            /\ errLog' = Append(errLog, Wrap(PortError, "failed to set humidity"))
            /\ muxCmd.kind = "sethum"
            /\ \E frame \in humidityFrames(muxCmd.arg) : LastDataCall = WriteEv(frame)
            /\ UNCHANGED <<portLog, published>>]_vars
    /\ [](SetHumidityFailed \in MuxErrors =>
            LET first == IF errLog[1] = CloseFailed /\ ctxDone
                         THEN CloseFailed ELSE SetHumidityFailed
            IN  /\ MuxErrors = {SetHumidityFailed}
                /\ \E h \in Humidities : \E frame \in humidityFrames(h) :
                      LastDataCall = WriteEv(frame)
                /\ groupErr = first
                /\ (Joined => sessErr = first /\ closeDone /\ CloseCalls = 1)
                /\ (runPc = "done" /\ TRUE \in answers /\ ~OpenHasFailed =>
                      runErr = first))

\* Run returned the set-humidity error after a cycle was published, the
\* port being closed.
C13_Witness ==
    /\ runPc = "done" /\ runErr = SetHumidityFailed /\ TRUE \in answers
    /\ closeDone /\ published # <<>> /\ ~ctxDone

\* C14: a call of HandleRelativeHumidity never panics, whenever it is made
\* relative to Run: it returns once handleCommands took the command or the
\* caller's context is cancelled.
C14_HumidityCallNeverPanics == hPc # "panic"

\* C15: a reply made of two 16-bit words c and t, big-endian, each followed
\* by the CRC-8 of its two bytes, decodes without error to the words c and
\* t, CO2eq is c parts-per-million from word 0 and TVOC is t parts-per-
\* billion from word 1, and each reading published carries the amount of
\* the reply that was read: TVOC t, CO2eq c.
C15_ReplyRoundTrip ==
    /\ [](muxPc \in {"tvoc", "tvocBlk", "co2", "co2Blk"} =>
            \E c, t \in WordSamples :
               /\ muxBuf[2] = c % 256 /\ muxBuf[5] = t % 256
               /\ muxBuf = Reply(c, t)
               /\ readWords(muxBuf) = [err |-> NoErr, data |-> <<c, t>>]
               /\ airQuality(readWords(muxBuf).data).CO2eq =
                     [count |-> c, unit |-> "PartPerMillion"]
               /\ airQuality(readWords(muxBuf).data).TVOC =
                     [count |-> t, unit |-> "PartPerBillion"])
    /\ [](errLog = <<>>)
    /\ [][published' # published =>
            \E c, t \in WordSamples :
               /\ muxBuf[2] = c % 256 /\ muxBuf[5] = t % 256
               /\ muxBuf = Reply(c, t)
               /\ published' = Append(published,
                     IF Len(published) = 0
                     THEN [gas |-> TotalVolatileOrganicCompounds,
                           amount |-> [count |-> t, unit |-> "PartPerBillion"],
                           cycle |-> 1]
                     ELSE [gas |-> CarbonDioxideEquivalent,
                           amount |-> [count |-> c, unit |-> "PartPerMillion"],
                           cycle |-> 1])]_vars

\* Both readings of a reply with two different words were published.
C15_Witness ==
    /\ Len(published) = 2
    /\ published[1].gas = TotalVolatileOrganicCompounds
    /\ published[1].amount = [count |-> 65535, unit |-> "PartPerBillion"]
    /\ published[2].gas = CarbonDioxideEquivalent
    /\ published[2].amount = [count |-> 256, unit |-> "PartPerMillion"]

\* C16: the frame setHumidity writes for an absolute humidity is 5 bytes:
\* 0x20 0x61, two data bytes that are the big-endian value of
\* absoluteHumidity x 256 truncated (so never the encoding of another
\* humidity, also for values of 65536 and more), and the CRC-8 of the two
\* data bytes.
C16_HumidityFrame ==
    muxPc = "hWriting" =>
        LET frame == LastDataCall.frame
            scaled == muxCmd.arg \div 2
        IN  /\ Len(frame) = 5
            /\ frame[1] = 32 /\ frame[2] = 97
            /\ frame[3] \in 0..255 /\ frame[4] \in 0..255
            /\ frame[3] * 256 + frame[4] = scaled
            /\ frame[5] = Checksum(<<frame[3], frame[4]>>)

\* C17: when the session's context is cancelled during the settling delay
\* after a successful measure-request write, handleCommands leaves the
\* delay by returning nil: no panic, no error recorded, no read, nothing
\* published.
C17_SilentDropOnCancel ==
    [][(muxPc = "mSettle" /\ InnerDone /\ muxPc' # "mSettle") =>
          /\ muxPc' = "done"
          /\ ~crashed'
          /\ UNCHANGED <<errLog, groupErr, portLog, published>>]_vars

\* A Write or Read call on the current port has not returned yet.
DataCallInProgress ==
    initPc = "writing" \/ muxPc \in {"hWriting", "mWriting", "mReading"}

\* C18: on a port, Close is the last call made (no Write or Read is started
\* after Close was called), and Close is not in progress while a Write or
\* Read is: at most one call on the port is outstanding.
C18_OneOutstandingPortCall ==
    /\ \A i \in 1..Len(portLog) : portLog[i].op = "Close" => i = Len(portLog)
    /\ ~(watchPc = "closing" /\ DataCallInProgress)

\* C19: on every port the first Write or Read call is the write of the init
\* frame and the init frame is written once; handleCommands and the
\* requester exist only after initAirQuality returned nil; while the init
\* write has not returned, or when it failed, the init write is the only
\* Write or Read call on the port.
C19_InitFirst ==
    /\ \A i \in 1..Len(DataCalls) : (DataCalls[i] = WriteEv(initFrame)) <=> (i = 1)
    /\ (muxPc # "off" \/ reqPc # "off") =>
          (initPc = "done"
           /\ \A i \in 1..Len(errLog) : errLog[i] # InitializationFailed)
    /\ (portId > 0 /\ (initPc # "done" \/ \E i \in 1..Len(errLog) :
                                            errLog[i] = InitializationFailed)) =>
          (muxPc = "off" /\ reqPc = "off" /\ Len(DataCalls) <= 1)

\* On the second port a set-humidity frame, a measure request and a read
\* followed the init write.
C19_Witness ==
    /\ portId = 2 /\ Len(DataCalls) = 4
    /\ DataCalls[1] = WriteEv(initFrame) /\ DataCalls[4] = ReadEv
    /\ \E h \in Humidities : DataCalls[2] \in {WriteEv(f) : f \in humidityFrames(h)}

\* The set-humidity frames of the values submitted.
SubmittedFrames == UNION {humidityFrames(h) : h \in Humidities}

\* Calls of kind k among the Write and Read calls on the current port:
\* the measure-request writes, the set-humidity writes.
MeasureWrites ==
    Cardinality({i \in 1..Len(DataCalls) : DataCalls[i] = WriteEv(measureFrame)})
HumidityWrites ==
    Cardinality({i \in 1..Len(DataCalls) :
                   DataCalls[i] \in {WriteEv(f) : f \in SubmittedFrames}})

\* C20: after the init write the calls on a port are, command by command,
\* one set-humidity write, or one measure-request write followed by at most
\* one read (a read is always the call right after a measure-request write,
\* started after that write returned without error); the command in hand
\* has made exactly the calls its position says; there are no more writes
\* than commands issued; a command is taken only when none is in hand, and
\* handleCommands comes back to take the next one only from the end of
\* setHumidity or from the CO2eq send, after both readings were published.
C20_OneWritePerCommand ==
    /\ [](\A i \in 2..Len(DataCalls) :
            /\ DataCalls[i] \in {WriteEv(measureFrame), ReadEv}
                                  \cup {WriteEv(f) : f \in SubmittedFrames}
            /\ (DataCalls[i] = ReadEv => DataCalls[i - 1] = WriteEv(measureFrame)))
    /\ [](MeasureWrites <= ticks /\ HumidityWrites <= hCalls)
    /\ []((muxCmd = NoCmd) <=> (muxPc \in {"off", "recv", "recvBlk", "done"}))
    /\ [](muxPc \in {"hWrite", "hWriting", "hSettle"} => muxCmd.kind = "sethum")
    /\ [](muxPc \in {"hWriting", "hSettle"} =>
            LastDataCall \in {WriteEv(f) : f \in humidityFrames(muxCmd.arg)})
    /\ [](muxPc \in {"mWriting", "mSettle", "mRead", "panic"} =>
            LastDataCall = WriteEv(measureFrame))
    /\ [](muxPc \in {"mReading", "tvoc", "tvocBlk", "co2", "co2Blk"} =>
            /\ LastDataCall = ReadEv
            /\ \A i \in 1..Len(errLog) : errLog[i] # MeasureRequestFailed)
    /\ [][(muxCmd = NoCmd /\ muxCmd' # NoCmd) =>
            /\ muxPc \in {"recv", "recvBlk"}
            /\ muxPc' \in {"hWrite", "mWrite"}
            /\ UNCHANGED <<portLog, published>>]_vars
    /\ [][(muxPc \in {"hWrite", "mWrite"} /\ muxPc' # muxPc) =>
            /\ muxPc' \in {"hWriting", "mWriting"}
            /\ Len(DataCalls') = Len(DataCalls) + 1
            /\ muxCmd' = muxCmd]_vars
    /\ [][(muxPc # "recv" /\ muxPc' = "recv") =>
            \/ muxPc = "off" /\ initPc = "settle"
            \/ muxPc = "hSettle"
            \/ /\ muxPc \in {"co2", "co2Blk"}
               /\ Len(SelectSeq(published', LAMBDA r : r.cycle = muxCmd.arg)) = 2]_vars

\* handleCommands waits for its fourth command, having processed two
\* measurements and a set-humidity on one port.
C20_Witness ==
    /\ muxPc = "recvBlk" /\ Len(DataCalls) = 6 /\ Len(published) = 4
    /\ HumidityWrites = 1 /\ MeasureWrites = 2

\* Run has returned, or is about to call Open with the bound on Open calls
\* used up.
RunReturnedOrAtBound == runPc = "done" \/ (runPc = "open" /\ openCalls = MaxOpens)

\* C21: once Run's context is cancelled Run returns (at the bound on Open
\* calls: arrives at the next call), every port call returning: no goroutine
\* of the session keeps Run in group.Wait.
C21_RunReturnsAfterCancel == ctxDone ~> RunReturnedOrAtBound

\* Run's context was cancelled while handleCommands was in the settling
\* delay of measureAirQuality, and Run has not returned.
C21_Witness == ctxDone /\ muxPc = "panic" /\ runPc = "wait"

\* Apart from the panic of handleCommands, Run returns once its context is
\* cancelled.
RunReturnsUnlessPanic == ctxDone ~> (RunReturnedOrAtBound \/ muxPc = "panic")

\* The requester has a RequestMeasurement to enqueue: it is in the inner
\* select of requestAirQualityRepeatedly, arriving or parked.
RequestPending == reqPc \in {"send", "sendBlk"}

\* handleCommands takes a RequestMeasurement in this step.
RequestEnqueued == muxCmd'.kind = "measure" /\ muxCmd' # muxCmd

\* C22: once the session's context is cancelled no RequestMeasurement is
\* enqueued, the requester is not parked in its send, the only step a
\* running requester takes is its exit, and it takes it unless the process
\* ended by a panic; a tick happens only when no request is pending, and a
\* pending request ends only by handleCommands taking it when it holds no
\* command, or by the requester's exit; when Run opens the next port the
\* requester and handleCommands of the ended session have returned.
C22_RequesterSendCancellable ==
    /\ [][InnerDone => ~RequestEnqueued]_vars
    /\ [](InnerDone => reqPc # "sendBlk")
    /\ [][(InnerDone /\ reqPc \in {"tick", "send", "sendBlk"} /\ reqPc' # reqPc) =>
            reqPc' = "done"]_vars
    /\ (InnerDone /\ reqPc \in {"tick", "send"}) ~> (reqPc \in {"done", "off"} \/ crashed)
    /\ [][ticks' # ticks =>
            /\ ~RequestPending /\ reqPc = "tick" /\ reqPc' = "send"
            /\ ticks' = ticks + 1]_vars
    /\ [][(RequestPending /\ ~RequestPending') =>
            \/ /\ reqPc' = "tick" /\ ~InnerDone
               /\ muxCmd = NoCmd /\ muxCmd' = [kind |-> "measure", arg |-> ticks]
            \/ /\ reqPc' = "done" /\ InnerDone' /\ ~RequestEnqueued]_vars
    /\ [][RequestEnqueued => (RequestPending /\ reqPc' = "tick")]_vars
    /\ [][portId' # portId =>
            /\ reqPc \in {"off", "done"} /\ muxPc \in {"off", "done"}
            /\ reqPc' = "off"]_vars

\* Run's context was cancelled while the requester had its second request
\* to enqueue: the requester and handleCommands returned without it, after
\* a complete first cycle.
C22_Witness ==
    /\ ctxDone /\ errLog = <<>> /\ portId = 1
    /\ reqPc = "done" /\ muxPc = "done"
    /\ ticks = 2 /\ MeasureWrites = 1 /\ Len(published) = 2

\* The TVOC reading of cycle c was published and the CO2eq reading of the
\* same cycle right after it.
PublishedBoth(c) ==
    \E i \in 1..(Len(published) - 1) :
        /\ published[i].gas = TotalVolatileOrganicCompounds
        /\ published[i].cycle = c
        /\ published[i + 1].gas = CarbonDioxideEquivalent
        /\ published[i + 1].cycle = c

\* C23: every tick of the requester in a session leads to the TVOC reading
\* and then the CO2eq reading of that cycle being published, unless the
\* session's context is cancelled (by the caller, or by a port call that
\* failed or a checksum that did not match), with the goroutines scheduled
\* fairly and the consumer receiving, whether or not a set-humidity command
\* is submitted meanwhile; and nothing is published for a cycle before its
\* tick.
C23_TickLeadsToReadings ==
    /\ \A n \in 1..MaxTicks :
          (ticks = n /\ RequestPending /\ ~InnerDone) ~> (PublishedBoth(n) \/ InnerDone)
    /\ [](\A i \in 1..Len(published) : published[i].cycle \in 1..ticks)

\* Two ticks were answered by two readings each in one session that is not
\* cancelled, a set-humidity command having been written on the same port.
C23_Witness ==
    /\ ~InnerDone /\ portId = 1 /\ ticks = 2
    /\ PublishedBoth(1) /\ PublishedBoth(2)
    /\ HumidityWrites = 1

====
